---- MODULE Spec2Model ----
(***************************************************************************)
(* A model of docspec's layout engine: the Future size rules               *)
(* (width/height Percentage, Fill, AsChildren), the positional resolver    *)
(* recursiveSetPositions and the paginator resolveNodeRectPositions, over  *)
(* trees built with the Div / Text / Image constructors.                   *)
(*                                                                         *)
(* Size is float64 in the source.  Here a Size is an integer counting      *)
(* 1/Scale of a unit, so that the halves and percentages the model's       *)
(* inputs produce are exact.                                               *)
(***************************************************************************)
EXTENDS Integers, Sequences, FiniteSets, TLC

VARIABLES nodes, pages, dnodes, cursor, idx, currentPage, pc, err, last, res

vars == <<nodes, pages, dnodes, cursor, idx, currentPage, pc, err, last, res>>

(* ------------------------------ bounds -------------------------------- *)

\* the largest number of LayoutNodes the constructors may create
MaxNodes == 3

\* the depth of nested rule calls the stack holds before it overflows
MaxStack == 8

(* ------------------------------ Size ---------------------------------- *)

Scale == 64

Sz(x) == x * Scale

emptySize == 0

Nil == 0

LetterWidth == 216

LetterHeight == 279

getDocumentSize == [width |-> Sz(LetterWidth), height |-> Sz(LetterHeight)]

(* ------------------------- supporting types --------------------------- *)

FlowVertical == "FlowVertical"

FlowHorizontal == "FlowHorizontal"

Start == "Start"

End == "End"

Center == "Center"

Rect(w, h) == [width |-> w, height |-> h]

NewSizeQuad(t, r, b, l) == [top |-> t, right |-> r, bottom |-> b, left |-> l]

NewSingletonSizeQuad(v) == [left |-> v, right |-> v, top |-> v, bottom |-> v]

(* ------------------------------ Future -------------------------------- *)

futureIncomplete == "futureIncomplete"

futureComplete == "futureComplete"

\* the zero value of Future: what a LayoutNodeProps leaves in a dimension it
\* does not set
ZeroFuture ==
  [value |-> emptySize, state |-> futureIncomplete, definition |-> "nil",
   params |-> 0, node |-> Nil]

newIncompleteFuture(def, params) ==
  [value |-> emptySize, state |-> futureIncomplete, definition |-> def,
   params |-> params, node |-> Nil]

newCompleteFuture(value) ==
  [value |-> value, state |-> futureComplete,
   definition |-> "identityFutureDefinition", params |-> value, node |-> Nil]

HeightPercentage(percentage) == newIncompleteFuture("heightPercentage", percentage)

WidthPercentage(percentage) == newIncompleteFuture("widthPercentage", percentage)

HeightAsChildren == newIncompleteFuture("heightAsChildren", 0)

WidthAsChildren == newIncompleteFuture("widthAsChildren", 0)

HeightFill == newIncompleteFuture("heightFill", 0)

WidthFill == newIncompleteFuture("widthFill", 0)

StaticSize(size) == newCompleteFuture(size)

(* --------------------- results of a call: (Size, error) ---------------- *)

\* a returned value with a nil error
Ok(v) == [kind |-> "ok", v |-> v, e |-> "nil"]

\* a returned error; the Size beside it is emptySize
Err(e) == [kind |-> "err", v |-> emptySize, e |-> e]

\* a run-time panic (a call through a nil func or a nil interface)
Panic == [kind |-> "panic", v |-> emptySize, e |-> "panic"]

\* a recursion-depth guard: the exhausted stack reported as an error
OverflowReported == [kind |-> "err", v |-> emptySize, e |-> "recursion too deep"]

\* the goroutine's stack is exhausted: the program dies, nothing is returned
Overflow == [kind |-> "overflow", v |-> emptySize, e |-> "stack overflow"]

invariantViolation == "InvariantViolation"

OrphanHeight == "OrphanNode: parent has height of 0"

OrphanWidth == "OrphanNode: parent has width of 0"

UnresolvableLeafHeight == "UnresolvableLeaf: requested height as children"

UnresolvableLeafWidth == "UnresolvableLeaf: requested width as children"

NodeTooTallForPage == "NodeTooTallForPage"

UnhandledFlowDirection == "UnhandledFlowDirection"

(* --------------------------- the renderer ------------------------------ *)

\* DocumentRenderer.GetInherentTextRect: the unsplit extent of a text
GetInherentTextRect(textNode) == Rect(Sz(textNode.chars * 5), Sz(12))

(* ------------------------------- Page ---------------------------------- *)

\* Page.getDrawRect: the area inside the page into which child nodes render
PageGetDrawRect(p) ==
  Rect(p.Width - (p.Margin.left + p.Margin.right),
       p.Height - (p.Margin.top + p.Margin.bottom))

(* --------------------- Future.await and the rules ---------------------- *)
(* h is the heap the rules read: [nodes |-> ..., pages |-> ..., writes    *)
(* |-> ...].  fuel is the number of rule frames the stack still holds.     *)

RECURSIVE await(_, _, _)

\* "r, err := call; if err != nil { return emptySize, err }", then the rest of
\* the function with what the call returned
AndThen(r, rest(_)) == IF r.kind # "ok" THEN r ELSE rest(r)

\* the same with the value returned beside the error made by failed
Check(r, failed(_), rest(_)) == IF r.kind # "ok" THEN failed(r) ELSE rest(r)

\* the node's resolved height plus its top and bottom margins
getBoundingHeight(h, n, fuel) ==
  AndThen(await(h, h.nodes[n].Height, fuel),
          LAMBDA r : Ok(r.v + h.nodes[n].Margin.top + h.nodes[n].Margin.bottom))

\* the node's resolved width plus its left and right margins
getBoundingWidth(h, n, fuel) ==
  AndThen(await(h, h.nodes[n].Width, fuel),
          LAMBDA r : Ok(r.v + h.nodes[n].Margin.left + h.nodes[n].Margin.right))

\* the node's resolved height minus its top and bottom padding
getDrawHeight(h, n, fuel) ==
  AndThen(await(h, h.nodes[n].Height, fuel),
          LAMBDA r : Ok(r.v - (h.nodes[n].Padding.top + h.nodes[n].Padding.bottom)))

\* the node's resolved width minus its left and right padding
getDrawWidth(h, n, fuel) ==
  AndThen(await(h, h.nodes[n].Width, fuel),
          LAMBDA r : Ok(r.v - (h.nodes[n].Padding.left + h.nodes[n].Padding.right)))

\* child.getBoundingHeight() or child.getBoundingWidth()
getBoundingExtent(h, n, axis, fuel) ==
  IF axis = "height" THEN getBoundingHeight(h, n, fuel) ELSE getBoundingWidth(h, n, fuel)

\* the loop "for _, child := range node.Children" that keeps the largest
\* bounding extent; the first failure ends it
RECURSIVE largestChild(_, _, _, _, _, _)
largestChild(h, kids, i, axis, largest, fuel) ==
  IF i > Len(kids) THEN Ok(largest)
  ELSE AndThen(getBoundingExtent(h, kids[i], axis, fuel),
               LAMBDA c : largestChild(h, kids, i + 1, axis,
                                       IF c.v > largest THEN c.v ELSE largest, fuel))

\* the loops that add up bounding extents, leaving out the node skip (Nil to
\* leave out none); the first failure ends them
RECURSIVE sumOfOthers(_, _, _, _, _, _, _)
sumOfOthers(h, kids, i, axis, skip, result, fuel) ==
  IF i > Len(kids) THEN Ok(result)
  ELSE IF kids[i] = skip
       THEN sumOfOthers(h, kids, i + 1, axis, skip, result, fuel)
       ELSE AndThen(getBoundingExtent(h, kids[i], axis, fuel),
                    LAMBDA c : sumOfOthers(h, kids, i + 1, axis, skip,
                                           result + c.v, fuel))

identityFutureDefinition(h, node, params, fuel) == Ok(params)

\* the result with the node's two paddings added
plusPadding(r, pad) == AndThen(r, LAMBDA s : Ok(s.v + pad))

\* the case of a node that wraps a visual node with an inherent size
inherentExtent(childNode, axis, pad) ==
  IF childNode.VisualNode.type = "TextNode"
  THEN IF ~childNode.rendererContext THEN Panic
       ELSE Ok((IF axis = "height"
                THEN GetInherentTextRect(childNode.VisualNode).height
                ELSE GetInherentTextRect(childNode.VisualNode).width) + pad)
  ELSE Err(IF axis = "height" THEN UnresolvableLeafHeight ELSE UnresolvableLeafWidth)

\* len(node.Children) == 1 && node.Children[0].VisualNode != nil
wrapsVisualNode(h, n) ==
  Len(n.Children) = 1 /\ h.nodes[n.Children[1]].VisualNode.type # "nil"

\* heightAsChildren adding the children up in either flow direction
heightAsChildrenAlwaysSum(h, node, params, fuel) ==
  LET n == h.nodes[node]
      pad == n.Padding.top + n.Padding.bottom
  IN  IF wrapsVisualNode(h, n)
      THEN inherentExtent(h.nodes[n.Children[1]], "height", pad)
      ELSE plusPadding(sumOfOthers(h, n.Children, 1, "height", Nil, emptySize, fuel),
                       pad)

heightAsChildren(h, node, params, fuel) ==
  LET n == h.nodes[node]
      pad == n.Padding.top + n.Padding.bottom
  IN  IF wrapsVisualNode(h, n)
      THEN inherentExtent(h.nodes[n.Children[1]], "height", pad)
      ELSE IF n.ChildFlowDirection = FlowHorizontal
      THEN plusPadding(largestChild(h, n.Children, 1, "height", 0, fuel), pad)
      ELSE plusPadding(sumOfOthers(h, n.Children, 1, "height", Nil, emptySize, fuel),
                       pad)

\* widthAsChildren without the case of the node that wraps a visual node
widthAsChildrenNoLeaf(h, node, params, fuel) ==
  LET n == h.nodes[node]
      pad == n.Padding.left + n.Padding.right
  IN  IF n.ChildFlowDirection = FlowVertical
      THEN plusPadding(largestChild(h, n.Children, 1, "width", 0, fuel), pad)
      ELSE plusPadding(sumOfOthers(h, n.Children, 1, "width", Nil, emptySize, fuel),
                       pad)

widthAsChildren(h, node, params, fuel) ==
  LET n == h.nodes[node]
      pad == n.Padding.left + n.Padding.right
  IN  IF wrapsVisualNode(h, n)
      THEN inherentExtent(h.nodes[n.Children[1]], "width", pad)
      ELSE IF n.ChildFlowDirection = FlowVertical
      THEN plusPadding(largestChild(h, n.Children, 1, "width", 0, fuel), pad)
      ELSE plusPadding(sumOfOthers(h, n.Children, 1, "width", Nil, emptySize, fuel),
                       pad)

\* widthPercentage taking the parent's render width, padding not subtracted
widthPercentageOfRenderRect(h, node, params, fuel) ==
  LET n == h.nodes[node]
  IN  AndThen(IF n.Parent # Nil THEN await(h, h.nodes[n.Parent].Width, fuel)
              ELSE IF n.Page # Nil THEN Ok(PageGetDrawRect(h.pages[n.Page]).width)
              ELSE Ok(0),
              LAMBDA parentDrawWidth :
                IF parentDrawWidth.v = 0 THEN Err(OrphanWidth)
                ELSE Ok((parentDrawWidth.v * params) \div 100))

widthPercentage(h, node, params, fuel) ==
  LET n == h.nodes[node]
  IN  AndThen(IF n.Parent # Nil THEN getDrawWidth(h, n.Parent, fuel)
              ELSE IF n.Page # Nil THEN Ok(PageGetDrawRect(h.pages[n.Page]).width)
              ELSE Ok(0),
              LAMBDA parentDrawWidth :
                IF parentDrawWidth.v = 0 THEN Err(OrphanWidth)
                ELSE Ok((parentDrawWidth.v * params) \div 100))

heightPercentage(h, node, params, fuel) ==
  LET n == h.nodes[node]
  IN  AndThen(IF n.Parent # Nil THEN getDrawHeight(h, n.Parent, fuel)
              ELSE IF n.Page # Nil THEN Ok(PageGetDrawRect(h.pages[n.Page]).height)
              ELSE Ok(0),
              LAMBDA parentDrawHeight :
                IF parentDrawHeight.v = 0 THEN Err(OrphanHeight)
                ELSE Ok((parentDrawHeight.v * params) \div 100))

\* the siblings heightFill and widthFill read: the parent's children, else the
\* page's children, else none
siblingsOf(h, n) ==
  IF n.Parent # Nil THEN h.nodes[n.Parent].Children
  ELSE IF n.Page # Nil THEN h.pages[n.Page].Children
  ELSE << >>

\* the flowDirection heightFill and widthFill read: the parent's, FlowVertical
\* on a page; the zero value of childFlowDirection is FlowVertical
flowDirectionOf(h, n) ==
  IF n.Parent # Nil THEN h.nodes[n.Parent].ChildFlowDirection ELSE FlowVertical

\* parentHeight of heightFill: the parent's draw height, else the page's
parentHeightOf(h, n, fuel) ==
  IF n.Parent # Nil THEN getDrawHeight(h, n.Parent, fuel)
  ELSE IF n.Page # Nil THEN Ok(PageGetDrawRect(h.pages[n.Page]).height)
  ELSE Ok(emptySize)

\* parentWidth of widthFill: the parent's draw width, else the page's
parentWidthOf(h, n, fuel) ==
  IF n.Parent # Nil THEN getDrawWidth(h, n.Parent, fuel)
  ELSE IF n.Page # Nil THEN Ok(PageGetDrawRect(h.pages[n.Page]).width)
  ELSE Ok(emptySize)

\* the end of heightFill: parentHeight less the siblings and the own margins
heightLeft(h, node, parentHeight, fuel) ==
  AndThen(sumOfOthers(h, siblingsOf(h, h.nodes[node]), 1, "height", node,
                      emptySize, fuel),
          LAMBDA siblingHeights :
            Ok((parentHeight - siblingHeights.v)
               - (h.nodes[node].Margin.top + h.nodes[node].Margin.bottom)))

\* the end of widthFill: parentWidth less the siblings and the own margins
widthLeft(h, node, parentWidth, fuel) ==
  AndThen(sumOfOthers(h, siblingsOf(h, h.nodes[node]), 1, "width", node,
                      emptySize, fuel),
          LAMBDA siblingWidths :
            Ok((parentWidth - siblingWidths.v)
               - (h.nodes[node].Margin.left + h.nodes[node].Margin.right)))

\* heightFill subtracting the siblings in either flow direction
heightFillNeverPercentage(h, node, params, fuel) ==
  AndThen(parentHeightOf(h, h.nodes[node], fuel),
          LAMBDA parentHeight :
            IF parentHeight.v = emptySize THEN Err(OrphanHeight)
            ELSE heightLeft(h, node, parentHeight.v, fuel))

heightFill(h, node, params, fuel) ==
  AndThen(parentHeightOf(h, h.nodes[node], fuel),
          LAMBDA parentHeight :
            IF parentHeight.v = emptySize THEN Err(OrphanHeight)
            ELSE IF flowDirectionOf(h, h.nodes[node]) = FlowHorizontal
            THEN heightPercentage(h, node, 100, fuel)
            ELSE heightLeft(h, node, parentHeight.v, fuel))

\* widthFill leaving the node's own margins in the result
widthFillKeepsMargin(h, node, params, fuel) ==
  AndThen(parentWidthOf(h, h.nodes[node], fuel),
          LAMBDA parentWidth :
            IF parentWidth.v = emptySize THEN Err(OrphanWidth)
            ELSE IF flowDirectionOf(h, h.nodes[node]) = FlowVertical
            THEN widthPercentage(h, node, 100, fuel)
            ELSE AndThen(sumOfOthers(h, siblingsOf(h, h.nodes[node]), 1, "width",
                                     node, emptySize, fuel),
                         LAMBDA siblingWidths : Ok(parentWidth.v - siblingWidths.v)))

\* widthFill looking at the flow direction before the parent's width
widthFillFlowFirst(h, node, params, fuel) ==
  AndThen(parentWidthOf(h, h.nodes[node], fuel),
          LAMBDA parentWidth :
            IF flowDirectionOf(h, h.nodes[node]) = FlowVertical
            THEN widthPercentage(h, node, 100, fuel)
            ELSE widthLeft(h, node, parentWidth.v, fuel))

widthFill(h, node, params, fuel) ==
  AndThen(parentWidthOf(h, h.nodes[node], fuel),
          LAMBDA parentWidth :
            IF parentWidth.v = emptySize THEN Err(OrphanWidth)
            ELSE IF flowDirectionOf(h, h.nodes[node]) = FlowVertical
            THEN widthPercentage(h, node, 100, fuel)
            ELSE widthLeft(h, node, parentWidth.v, fuel))

\* f.definition(f.node, f.params): a nil definition panics, a call the stack
\* has no room for overflows it
callDefinition(h, f, fuel) ==
  IF f.definition = "nil" THEN Panic
  ELSE IF fuel = 0 THEN Overflow
  ELSE CASE f.definition = "identityFutureDefinition" ->
              identityFutureDefinition(h, f.node, f.params, fuel - 1)
         [] f.definition = "heightAsChildren" ->
              heightAsChildren(h, f.node, f.params, fuel - 1)
         [] f.definition = "widthAsChildren" ->
              widthAsChildren(h, f.node, f.params, fuel - 1)
         [] f.definition = "heightFill" ->
              heightFill(h, f.node, f.params, fuel - 1)
         [] f.definition = "widthFill" ->
              widthFill(h, f.node, f.params, fuel - 1)
         [] f.definition = "heightPercentage" ->
              heightPercentage(h, f.node, f.params, fuel - 1)
         [] f.definition = "widthPercentage" ->
              widthPercentage(h, f.node, f.params, fuel - 1)

\* await handing out the stored value of a Future whatever its state
awaitStoredValue(h, f, fuel) ==
  IF f.node = Nil THEN Err(invariantViolation) ELSE Ok(f.value)

\* await looking at the state before it looks at the node
awaitStateFirst(h, f, fuel) ==
  IF f.state = futureComplete THEN Ok(f.value)
  ELSE IF f.node = Nil THEN Err(invariantViolation)
  ELSE callDefinition(h, f, fuel)

await(h, f, fuel) ==
  IF f.node = Nil THEN Err(invariantViolation)
  ELSE IF f.state = futureComplete THEN Ok(f.value)
  ELSE callDefinition(h, f, fuel)

(* ---------------------------- LayoutNode ------------------------------- *)

NoVisual == [type |-> "nil", chars |-> 0]

TextNode(chars) == [type |-> "TextNode", chars |-> chars]

ImageNode == [type |-> "ImageNode", chars |-> 0]

\* a Rect beside a nil error
OkRect(w, h) == [kind |-> "ok", e |-> "nil", width |-> w, height |-> h]

\* Rect{} beside the failure r
FailRect(r) == [kind |-> r.kind, e |-> r.e, width |-> emptySize, height |-> emptySize]

\* "width, err := n.Width.await(); if err != nil { return Rect{}, err }"
awaitBoth(h, n, fuel, rest(_, _)) ==
  Check(await(h, h.nodes[n].Width, fuel), FailRect,
        LAMBDA width :
          Check(await(h, h.nodes[n].Height, fuel), FailRect,
                LAMBDA height : rest(width.v, height.v)))

getBoundingRect(h, n, fuel) ==
  awaitBoth(h, n, fuel,
            LAMBDA width, height :
              OkRect(width + h.nodes[n].Margin.left + h.nodes[n].Margin.right,
                     height + h.nodes[n].Margin.top + h.nodes[n].Margin.bottom))

getRenderRect(h, n, fuel) ==
  awaitBoth(h, n, fuel, LAMBDA width, height : OkRect(width, height))

\* "if err != nil { return Rect{}, nil }": the error is dropped, and only a
\* panic or a stack overflow gets through
droppingError(r, rest(_)) ==
  IF r.kind = "err" THEN OkRect(emptySize, emptySize)
  ELSE IF r.kind # "ok" THEN FailRect(r)
  ELSE rest(r)

\* on an error of Width or Height this returns Rect{} and a nil error
getDrawRect(h, n, fuel) ==
  droppingError(await(h, h.nodes[n].Width, fuel),
    LAMBDA width :
      droppingError(await(h, h.nodes[n].Height, fuel),
        LAMBDA height :
          OkRect(width.v - (h.nodes[n].Padding.left + h.nodes[n].Padding.right),
                 height.v - (h.nodes[n].Padding.top + h.nodes[n].Padding.bottom))))

\* a fresh &LayoutNode{Parent: parent, VisualNode: visual} with the given
\* futures, every other field at its zero value
newLayoutNode(parent, visual, width, height) ==
  [Children |-> << >>, VisualNode |-> visual, Parent |-> parent, Page |-> Nil,
   X |-> emptySize, Y |-> emptySize, Width |-> width, Height |-> height,
   Padding |-> NewSingletonSizeQuad(0), Margin |-> NewSingletonSizeQuad(0),
   ChildAlignment |-> [Vertical |-> Start, Horizontal |-> Start],
   ChildFlowDirection |-> FlowVertical, rendererContext |-> FALSE]

mergeProps(n, props) ==
  [n EXCEPT !.Padding = props.Padding, !.Margin = props.Margin,
            !.ChildAlignment = props.ChildAlignment,
            !.ChildFlowDirection = props.ChildFlowDirection,
            !.Width = props.Width, !.Height = props.Height]

\* newNode.Width.node = newNode; newNode.Height.node = newNode
bindFutures(n, id) == [n EXCEPT !.Width.node = id, !.Height.node = id]

\* parent.Children = append(parent.Children, id), when parent is not nil
appendToParent(ns, parent, id) ==
  IF parent = Nil THEN ns
  ELSE [ns EXCEPT ![parent].Children = Append(@, id)]

\* Div with the NoChildren callback: the node list after the call; the new node
\* is the last one
Div(ns, parent, options) ==
  LET id == Len(ns) + 1
      newNode == bindFutures(
                   mergeProps(newLayoutNode(parent, NoVisual, ZeroFuture, ZeroFuture),
                              options), id)
  IN  appendToParent(Append(ns, newNode), parent, id)

\* the two nodes Text and Image make: the wrapper that holds the visual node,
\* then the layout node that is returned (the last one)
visualPair(ns, parent, options, visual) ==
  LET wid == Len(ns) + 1
      lid == Len(ns) + 2
      wrapperNode == bindFutures(
                       newLayoutNode(lid, visual, WidthFill, HeightFill), wid)
      layoutNode == bindFutures(
                      mergeProps([newLayoutNode(parent, NoVisual, ZeroFuture, ZeroFuture)
                                    EXCEPT !.Children = <<wid>>], options), lid)
  IN  appendToParent(Append(Append(ns, wrapperNode), layoutNode), parent, lid)

Text(ns, parent, options, textProps) == visualPair(ns, parent, options, textProps)

Image(ns, parent, options, imageProps) == visualPair(ns, parent, options, imageProps)

(* ----------------------- Document and its pages ------------------------ *)

newDocument(width, height, margin) ==
  << [Children |-> << >>, Width |-> width, Height |-> height,
      Margin |-> NewSingletonSizeQuad(margin)] >>

\* addNode keeping the page in the node's Parent reference
addNodeAsParent(h, p, node) ==
  [h EXCEPT !.nodes[node].Parent = p, !.pages[p].Children = Append(@, node)]

\* Page.addNode
addNode(h, p, node) ==
  [h EXCEPT !.nodes[node].Page = p, !.pages[p].Children = Append(@, node)]

\* addPage giving the new page no margin
addPageWithoutMargin(pgs) ==
  LET previousPage == pgs[Len(pgs)]
  IN  Append(pgs, [Children |-> << >>, Width |-> previousPage.Width,
                   Height |-> previousPage.Height, Margin |-> NewSingletonSizeQuad(0)])

\* Document.addPage: the page sequence after the call; the new page is the last
addPage(pgs) ==
  LET previousPage == pgs[Len(pgs)]
  IN  Append(pgs, [Children |-> << >>, Width |-> previousPage.Width,
                   Height |-> previousPage.Height, Margin |-> previousPage.Margin])

\* the nodes setDocumentRendererContext(node, renderer) visits
RECURSIVE subtree(_, _)
subtree(ns, node) ==
  {node} \cup UNION {subtree(ns, ns[node].Children[i]) : i \in 1..Len(ns[node].Children)}

setDocumentRendererContext(ns, nodeList) ==
  LET visited == UNION {subtree(ns, nodeList[i]) : i \in 1..Len(nodeList)}
  IN  [k \in 1..Len(ns) |->
         IF k \in visited THEN [ns[k] EXCEPT !.rendererContext = TRUE] ELSE ns[k]]

(* ----------------------- recursiveSetPositions ------------------------- *)

\* what a resolver call leaves: the heap, the cursor, and nil or the failure
\* node.X = x; node.Y = y (lines 150-151 and 242-243)
setPosition(h, node, x, y) ==
  [h EXCEPT !.nodes[node].X = x, !.nodes[node].Y = y, !.writes = Append(@, node)]

Walked(h, c) == [h |-> h, cursor |-> c, kind |-> "ok", e |-> "nil"]

WalkFailed(h, c, r) == [h |-> h, cursor |-> c, kind |-> r.kind, e |-> r.e]

\* the loop that measures the full column/row of children (lines 50-59)
RECURSIVE fullChildren(_, _, _, _, _)
fullChildren(h, kids, i, full, fuel) ==
  IF i > Len(kids) THEN full
  ELSE AndThen(getBoundingRect(h, kids[i], fuel),
               LAMBDA cbr :
                 fullChildren(h, kids, i + 1,
                              OkRect(full.width + cbr.width, full.height + cbr.height),
                              fuel))

\* the first child put at the corner of the draw rect, whatever the alignment
firstChildCursorAtOrigin(n, firstChildNode, cur, parentDrawRect, childBoundingRect, full) ==
  [kind |-> "ok", e |-> "nil", x |-> cur.x + n.Padding.left, y |-> cur.y + n.Padding.top]

\* the cursor on the first child (lines 64-147), or the unhandled flow direction
firstChildCursor(n, firstChildNode, cur, parentDrawRect, childBoundingRect, full) ==
  LET x0 == cur.x + n.Padding.left
      y0 == cur.y + n.Padding.top
      H == n.ChildAlignment.Horizontal
      V == n.ChildAlignment.Vertical
  IN  IF n.ChildFlowDirection = FlowVertical
      THEN [kind |-> "ok", e |-> "nil",
            x |-> CASE H = Start -> x0 + firstChildNode.Margin.left
                    [] H = End -> x0 + (parentDrawRect.width - childBoundingRect.width)
                    [] H = Center -> x0 + ((parentDrawRect.width \div 2)
                                           - (childBoundingRect.width \div 2))
                    [] OTHER -> x0,
            y |-> CASE V = Start -> y0 + firstChildNode.Margin.top
                    [] V = End -> y0 + (parentDrawRect.height - full.height)
                    [] V = Center -> y0 + ((parentDrawRect.height - full.height) \div 2)
                    [] OTHER -> y0]
      ELSE IF n.ChildFlowDirection = FlowHorizontal
      THEN [kind |-> "ok", e |-> "nil",
            x |-> CASE H = Start -> x0 + firstChildNode.Margin.left
                    [] H = End -> x0 + (parentDrawRect.width - full.width)
                    [] H = Center -> x0 + ((parentDrawRect.width - full.width) \div 2)
                    [] OTHER -> x0,
            y |-> CASE V = Start -> y0 + firstChildNode.Margin.top
                    [] V = End -> y0 + (parentDrawRect.height - childBoundingRect.height)
                    [] V = Center -> y0 + ((parentDrawRect.height
                                            - childBoundingRect.height) \div 2)
                    [] OTHER -> y0]
      ELSE [kind |-> "err", e |-> UnhandledFlowDirection, x |-> x0, y |-> y0]

\* the next sibling's cursor moved along the flow only, never across it
nextSiblingCursorWithoutShift(n, nextNode, cur, childBoundingRect, nextBoundingRect) ==
  IF n.ChildFlowDirection = FlowHorizontal
  THEN [x |-> cur.x + childBoundingRect.width + nextNode.Margin.left, y |-> cur.y]
  ELSE IF n.ChildFlowDirection = FlowVertical
  THEN [x |-> cur.x, y |-> cur.y + childBoundingRect.height + nextNode.Margin.top]
  ELSE cur

\* the next sibling's cursor moved without the next node's leading margin
nextSiblingCursorWithoutMargin(n, nextNode, cur, childBoundingRect, nextBoundingRect) ==
  nextSiblingCursorWithoutShift(n, [nextNode EXCEPT !.Margin = NewSingletonSizeQuad(0)],
                                [x |-> cur.x + (IF n.ChildFlowDirection = FlowVertical
                                                THEN CASE n.ChildAlignment.Horizontal = End ->
                                                            childBoundingRect.width
                                                            - nextBoundingRect.width
                                                       [] n.ChildAlignment.Horizontal = Center ->
                                                            (childBoundingRect.width
                                                             - nextBoundingRect.width) \div 2
                                                       [] OTHER -> 0
                                                ELSE 0),
                                 y |-> cur.y + (IF n.ChildFlowDirection = FlowHorizontal
                                                THEN CASE n.ChildAlignment.Vertical = End ->
                                                            childBoundingRect.height
                                                            - nextBoundingRect.height
                                                       [] n.ChildAlignment.Vertical = Center ->
                                                            (childBoundingRect.height
                                                             - nextBoundingRect.height) \div 2
                                                       [] OTHER -> 0
                                                ELSE 0)],
                                childBoundingRect, nextBoundingRect)

\* the cursor on the next sibling (lines 177-210)
nextSiblingCursor(n, nextNode, cur, childBoundingRect, nextBoundingRect) ==
  LET diffW == childBoundingRect.width - nextBoundingRect.width
      diffH == childBoundingRect.height - nextBoundingRect.height
      H == n.ChildAlignment.Horizontal
      V == n.ChildAlignment.Vertical
  IN  IF n.ChildFlowDirection = FlowHorizontal
      THEN [x |-> cur.x + childBoundingRect.width + nextNode.Margin.left,
            y |-> CASE V = End -> cur.y + diffH
                    [] V = Center -> cur.y + (diffH \div 2)
                    [] OTHER -> cur.y]
      ELSE IF n.ChildFlowDirection = FlowVertical
      THEN [x |-> CASE H = End -> cur.x + diffW
                    [] H = Center -> cur.x + (diffW \div 2)
                    [] OTHER -> cur.x,
            y |-> cur.y + childBoundingRect.height + nextNode.Margin.top]
      ELSE cur

RECURSIVE recursiveSetPositions(_, _, _, _)

RECURSIVE positionChildren(_, _, _, _, _)

\* "childBoundingRect, _ := child.getBoundingRect()": the error of this call
\* is never looked at
ignoringError(rect) ==
  IF rect.kind = "err" THEN OkRect(emptySize, emptySize) ELSE rect

\* the loop over node.Children assigning a child's X and Y once the child's own
\* children are placed
positionChildrenAfterSubtree(h, node, i, cur, fuel) ==
  LET kids == h.nodes[node].Children
  IN  IF i > Len(kids) THEN Walked(h, cur)
      ELSE
      AndThen(recursiveSetPositions(h, kids[i], cur, fuel),
        LAMBDA walked :
          AndThen(Walked(setPosition(walked.h, kids[i], cur.x, cur.y), walked.cursor),
            LAMBDA sub :
              Check(ignoringError(getBoundingRect(sub.h, kids[i], fuel)),
                LAMBDA r : WalkFailed(sub.h, sub.cursor, r),
                LAMBDA childBoundingRect :
                  IF i = Len(kids)
                  THEN positionChildren(sub.h, node, i + 1, sub.cursor, fuel)
                  ELSE Check(getBoundingRect(sub.h, kids[i + 1], fuel),
                         LAMBDA r : WalkFailed(sub.h, sub.cursor, r),
                         LAMBDA nextBoundingRect :
                           positionChildren(
                             sub.h, node, i + 1,
                             nextSiblingCursor(sub.h.nodes[node],
                                               sub.h.nodes[kids[i + 1]],
                                               sub.cursor, childBoundingRect,
                                               nextBoundingRect),
                             fuel)))))

\* the loop over node.Children (lines 149-212), from child number i on
positionChildren(h, node, i, cur, fuel) ==
  LET kids == h.nodes[node].Children
  IN  IF i > Len(kids) THEN Walked(h, cur)
      ELSE
      AndThen(recursiveSetPositions(
                setPosition(h, kids[i], cur.x, cur.y), kids[i], cur, fuel),
        LAMBDA sub :
          Check(ignoringError(getBoundingRect(sub.h, kids[i], fuel)),
            LAMBDA r : WalkFailed(sub.h, sub.cursor, r),
            LAMBDA childBoundingRect :
              IF i = Len(kids)
              THEN positionChildren(sub.h, node, i + 1, sub.cursor, fuel)
              ELSE Check(getBoundingRect(sub.h, kids[i + 1], fuel),
                     LAMBDA r : WalkFailed(sub.h, sub.cursor, r),
                     LAMBDA nextBoundingRect :
                       positionChildren(
                         sub.h, node, i + 1,
                         nextSiblingCursor(sub.h.nodes[node], sub.h.nodes[kids[i + 1]],
                                           sub.cursor, childBoundingRect,
                                           nextBoundingRect),
                         fuel))))

\* recursiveSetPositions without the restore of the cursor at its end: the
\* cursor is left where the last child was put
recursiveSetPositionsCursorLeft(h, node, cur, fuel) ==
  LET n == h.nodes[node]
      failed(r) == WalkFailed(h, cur, r)
  IN  IF Len(n.Children) = 0 THEN Walked(h, cur)
      ELSE
      Check(getDrawRect(h, node, fuel), failed,
        LAMBDA parentDrawRect :
          Check(getBoundingRect(h, n.Children[1], fuel), failed,
            LAMBDA childBoundingRect :
              Check(fullChildren(h, n.Children, 1, OkRect(0, 0), fuel), failed,
                LAMBDA full :
                  Check(firstChildCursor(n, h.nodes[n.Children[1]], cur,
                                         parentDrawRect, childBoundingRect, full),
                        failed,
                    LAMBDA first :
                      positionChildren(h, node, 1,
                                       [x |-> first.x, y |-> first.y], fuel)))))

recursiveSetPositions(h, node, cur, fuel) ==
  LET n == h.nodes[node]
      failed(r) == WalkFailed(h, cur, r)
  IN  IF Len(n.Children) = 0 THEN Walked(h, cur)
      ELSE
      Check(getDrawRect(h, node, fuel), failed,
        LAMBDA parentDrawRect :
          Check(getBoundingRect(h, n.Children[1], fuel), failed,
            LAMBDA childBoundingRect :
              Check(fullChildren(h, n.Children, 1, OkRect(0, 0), fuel), failed,
                LAMBDA full :
                  Check(firstChildCursor(n, h.nodes[n.Children[1]], cur,
                                         parentDrawRect, childBoundingRect, full),
                        failed,
                    LAMBDA first :
                      AndThen(positionChildren(h, node, 1,
                                               [x |-> first.x, y |-> first.y], fuel),
                              \* cursor.x = startingX; cursor.y = startingY
                              LAMBDA walk : Walked(walk.h, cur))))))

(* --------------------- resolveNodeRectPositions ------------------------ *)

\* the locals of the latest iteration of the loop over d.nodes: the node, the
\* cursor it was placed at, its bounding height, the cursor's y once advanced,
\* the next node's height, whether a page was added, and how far the iteration
\* got ("positions", "bounding", "tooTall", "nextHeight": where it failed), and
\* the nodes whose X and Y the iteration assigned, in the order it did
NoStep ==
  [node |-> Nil, page |-> Nil, at |-> [x |-> 0, y |-> 0], nodeHeight |-> 0,
   advancedY |-> 0, hasNext |-> FALSE, nextHeight |-> 0, broke |-> FALSE,
   stage |-> "none", writes |-> << >>]

\* what one iteration leaves
Iterated(h, cur, cp, r, step) ==
  [h |-> h, cursor |-> cur, currentPage |-> cp, kind |-> r.kind, e |-> r.e,
   last |-> [step EXCEPT !.writes = h.writes]]

\* the test of the node's bounding height against the page (line 264)
tooTall(nodeHeight, page) == nodeHeight > page.Height

\* the cursor resolveNodeRectPositions starts with (lines 235-238)
startCursor(page) == [x |-> page.Margin.left, y |-> page.Margin.top]

\* the top-level position with the node's own margin left out
topLevelPositionAtCursor(cur, margin) == [x |-> cur.x, y |-> cur.y]

\* node.X, node.Y of a top-level node, which is also nextCursor (lines 242-250)
topLevelPosition(cur, margin) == [x |-> cur.x + margin.left, y |-> cur.y + margin.top]

\* cursor.y += nodeHeight (line 271)
advanceCursor(cur, nodeHeight) == [x |-> cur.x, y |-> cur.y + nodeHeight]

\* the page break that adds the page and goes on placing nodes on the old one
pageBreakKeepingPage(pgs, cp, cur, nextHeight) ==
  IF cur.y + nextHeight > (PageGetDrawRect(pgs[cp]).height - pgs[cp].Margin.bottom)
  THEN LET grown == addPage(pgs)
       IN  [pages |-> grown, currentPage |-> cp,
            cursor |-> startCursor(grown[Len(grown)])]
  ELSE [pages |-> pgs, currentPage |-> cp, cursor |-> cur]

\* the page break (lines 281-285): the pages, the current page and the cursor
\* after the test on the next node's height
pageBreak(pgs, cp, cur, nextHeight) ==
  IF cur.y + nextHeight > (PageGetDrawRect(pgs[cp]).height - pgs[cp].Margin.bottom)
  THEN LET grown == addPage(pgs)
       IN  [pages |-> grown, currentPage |-> Len(grown),
            cursor |-> startCursor(grown[Len(grown)])]
  ELSE [pages |-> pgs, currentPage |-> cp, cursor |-> cur]

\* the end of an iteration (lines 264-287), the node's bounding height known
afterBounding(h, dn, i, cur, cp, fuel, nodeHeight, step1) ==
  IF tooTall(nodeHeight, h.pages[cp])
  THEN Iterated(h, cur, cp, Err(NodeTooTallForPage),
                [step1 EXCEPT !.stage = "tooTall"])
  ELSE
  LET advanced == advanceCursor(cur, nodeHeight)
      step2 == [step1 EXCEPT !.advancedY = advanced.y]
      step3(nextHeight) == [step2 EXCEPT !.hasNext = TRUE, !.nextHeight = nextHeight.v]
      broken(pb, nextHeight) ==
        Iterated([h EXCEPT !.pages = pb.pages], pb.cursor, pb.currentPage, Ok(0),
                 [step3(nextHeight) EXCEPT !.stage = "ok",
                                           !.broke = (pb.currentPage # cp)])
  IN  IF i = Len(dn)
      THEN Iterated(h, advanced, cp, Ok(0), [step2 EXCEPT !.stage = "ok"])
      ELSE Check(await(h, h.nodes[dn[i + 1]].Height, fuel),
             LAMBDA nextHeight :
               Iterated(h, advanced, cp, nextHeight,
                        [step3(nextHeight) EXCEPT !.stage = "nextHeight"]),
             LAMBDA nextHeight :
               broken(pageBreak(h.pages, cp, advanced, nextHeight.v), nextHeight))

\* one iteration of "for idx, node := range d.nodes" (lines 240-288)
resolveIteration(h, dn, i, cur, cp, fuel) ==
  LET node == dn[i]
      at == topLevelPosition(cur, h.nodes[node].Margin)
      step0 == [NoStep EXCEPT !.node = node, !.page = cp, !.at = cur]
  IN  Check(recursiveSetPositions(
              addNode(setPosition(h, node, at.x, at.y), cp, node),
              node, at, fuel),
        LAMBDA walk :
          Iterated(walk.h, cur, cp, walk, [step0 EXCEPT !.stage = "positions"]),
        LAMBDA walk :
          Check(getBoundingRect(walk.h, node, fuel),
            LAMBDA nodeBoundingRect :
              Iterated(walk.h, cur, cp, nodeBoundingRect,
                       [step0 EXCEPT !.nodeHeight = nodeBoundingRect.height,
                                     !.stage = "bounding"]),
            LAMBDA nodeBoundingRect :
              afterBounding(walk.h, dn, i, cur, cp, fuel, nodeBoundingRect.height,
                            [step0 EXCEPT !.nodeHeight = nodeBoundingRect.height])))

(* ------------------------- the builder's inputs ------------------------ *)

\* the margin NewDocumentBuilder is given
PageMargins == {Sz(0), Sz(10)}

StartStart == [Vertical |-> Start, Horizontal |-> Start]

Props(width, height, margin, padding, flow) ==
  [Width |-> width, Height |-> height, Margin |-> margin, Padding |-> padding,
   ChildAlignment |-> StartStart, ChildFlowDirection |-> flow]

Quad(t, r, b, l) == NewSizeQuad(Sz(t), Sz(r), Sz(b), Sz(l))

\* the LayoutNodeProps of the size-rule checks: a literal box, a literal box
\* that its padding fills exactly, and one box per rule, each in both flows
RuleProps ==
  { Props(StaticSize(Sz(100)), StaticSize(Sz(60)), Quad(1, 2, 3, 4), Quad(4, 3, 2, 1), f)
      : f \in {FlowVertical, FlowHorizontal} }
  \cup
  { Props(StaticSize(Sz(4)), StaticSize(Sz(6)), Quad(0, 0, 0, 0), Quad(4, 3, 2, 1), f)
      : f \in {FlowVertical, FlowHorizontal} }
  \cup
  { Props(WidthPercentage(50), HeightPercentage(50), Quad(2, 2, 2, 2), Quad(0, 0, 0, 0), f)
      : f \in {FlowVertical, FlowHorizontal} }
  \cup
  { Props(WidthPercentage(25), HeightPercentage(75), Quad(0, 1, 0, 1), Quad(2, 0, 1, 0), f)
      : f \in {FlowVertical} }
  \cup
  { Props(WidthFill, HeightFill, Quad(2, 1, 1, 3), Quad(1, 1, 1, 1), f)
      : f \in {FlowVertical, FlowHorizontal} }
  \cup
  { Props(WidthAsChildren, HeightAsChildren, Quad(0, 0, 0, 0), Quad(1, 1, 2, 2), f)
      : f \in {FlowVertical, FlowHorizontal} }

\* the LayoutNodeProps of the pagination checks: literal boxes of four
\* heights, with and without margins, and a Fill and an AsChildren box
FlowProps ==
  { Props(StaticSize(Sz(100)), StaticSize(Sz(v)), Quad(0, 0, 0, 0), Quad(0, 0, 0, 0),
          FlowVertical) : v \in {100, 150, 270, 300} }
  \cup
  { Props(StaticSize(Sz(100)), StaticSize(Sz(v)), Quad(3, 0, 2, 4), Quad(1, 1, 1, 1),
          FlowVertical) : v \in {100, 150} }
  \cup
  { Props(WidthFill, HeightFill, Quad(0, 0, 0, 0), Quad(0, 0, 0, 0), FlowVertical),
    Props(WidthAsChildren, HeightAsChildren, Quad(1, 0, 1, 2), Quad(0, 0, 0, 0),
          FlowVertical) }

\* the TextNode values Text is given
TextProps == {TextNode(3)}

(* ------------------------------ the state ------------------------------ *)

NoRes == [node |-> Nil, axis |-> "none", out |-> Ok(0)]

\* writes lists the nodes whose X and Y a call has assigned, in the order of
\* the assignments
Heap == [nodes |-> nodes, pages |-> pages, writes |-> << >>]

\* the nodes a constructor has returned: every node but the visual wrappers
Returned == {k \in 1..Len(nodes) : nodes[k].VisualNode.type = "nil"}

\* the top-level nodes, in the order they were made
TopLevel ==
  SelectSeq([k \in 1..Len(nodes) |-> k], LAMBDA k : nodes[k].Parent = Nil)

Init ==
  /\ nodes = << >>
  /\ \E margin \in PageMargins :
       pages = newDocument(getDocumentSize.width, getDocumentSize.height, margin)
  /\ dnodes = << >>
  /\ cursor = [x |-> 0, y |-> 0]
  /\ idx = 0
  /\ currentPage = 1
  /\ pc = "build"
  /\ err = "nil"
  /\ last = NoStep
  /\ res = NoRes

(* ------------------------------ the actions ---------------------------- *)

CallDiv(parent, options) ==
  /\ pc = "build"
  /\ Len(nodes) + 1 <= MaxNodes
  /\ nodes' = Div(nodes, parent, options)
  /\ UNCHANGED <<pages, dnodes, cursor, idx, currentPage, pc, err, last, res>>

CallText(parent, options, textProps) ==
  /\ pc = "build"
  /\ Len(nodes) + 2 <= MaxNodes
  /\ nodes' = Text(nodes, parent, options, textProps)
  /\ UNCHANGED <<pages, dnodes, cursor, idx, currentPage, pc, err, last, res>>

CallImage(parent, options) ==
  /\ pc = "build"
  /\ Len(nodes) + 2 <= MaxNodes
  /\ nodes' = Image(nodes, parent, options, ImageNode)
  /\ UNCHANGED <<pages, dnodes, cursor, idx, currentPage, pc, err, last, res>>

\* CreateDocumentTree(nodeList) up to the first iteration of the loop of
\* resolveNodeRectPositions
CreateDocumentTree ==
  /\ pc = "build"
  /\ dnodes' = TopLevel
  /\ nodes' = setDocumentRendererContext(nodes, TopLevel)
  /\ currentPage' = 1
  /\ cursor' = startCursor(pages[1])
  /\ idx' = 1
  /\ pc' = IF Len(TopLevel) = 0 THEN "done" ELSE "loop"
  /\ UNCHANGED <<pages, err, last, res>>

\* one iteration of the loop of resolveNodeRectPositions; a failure ends
\* CreateDocumentTree with that error, a panic or stack overflow ends the program
ResolveNext ==
  /\ pc = "loop"
  /\ \E it \in {resolveIteration(Heap, dnodes, idx, cursor, currentPage, MaxStack)} :
         /\ nodes' = it.h.nodes
         /\ pages' = it.h.pages
         /\ cursor' = it.cursor
         /\ currentPage' = it.currentPage
         /\ last' = it.last
         /\ err' = IF it.kind = "ok" THEN err ELSE it.e
         /\ idx' = IF it.kind = "ok" THEN idx + 1 ELSE idx
         /\ pc' = IF it.kind = "ok"
                  THEN (IF idx = Len(dnodes) THEN "done" ELSE "loop")
                  ELSE IF it.kind = "err" THEN "err" ELSE "crash"
  /\ res' = NoRes
  /\ UNCHANGED dnodes

\* Future.await on the Width or Height of a node, on the heap as it stands;
\* res keeps the result until the next iteration changes the heap
Await(n, axis) ==
  /\ pc \in {"loop", "done", "err"}
  /\ res = NoRes
  /\ res' = [node |-> n, axis |-> axis,
             out |-> await(Heap, IF axis = "width" THEN nodes[n].Width
                                 ELSE nodes[n].Height, MaxStack)]
  /\ UNCHANGED <<nodes, pages, dnodes, cursor, idx, currentPage, pc, err, last>>

Build(props) ==
  \/ \E parent \in Returned \cup {Nil}, options \in props : CallDiv(parent, options)
  \/ \E parent \in Returned \cup {Nil}, options \in props, textProps \in TextProps :
       CallText(parent, options, textProps)
  \/ \E parent \in Returned \cup {Nil}, options \in props : CallImage(parent, options)

Run ==
  \/ CreateDocumentTree
  \/ ResolveNext
  \/ \E n \in 1..Len(nodes), axis \in {"width", "height"} : Await(n, axis)

Next == Build(RuleProps) \/ Run

\* trees of the size-rule boxes, built, laid out and awaited
Spec == Init /\ [][Next]_vars

NextFlow == Build(FlowProps) \/ CreateDocumentTree \/ ResolveNext

\* trees of the pagination boxes, built and laid out
SpecFlow == Init /\ [][NextFlow]_vars

(* ======================= the size rules, checked ======================= *)
(* res is the latest Future.await: the node, the axis and what it returned. *)

\* the Future res awaited
ResFuture == IF res.axis = "width" THEN nodes[res.node].Width ELSE nodes[res.node].Height

\* res awaited a Future with one of the given definitions
Awaited(definitions) ==
  /\ res.node # Nil
  /\ ResFuture.state = futureIncomplete
  /\ ResFuture.definition \in definitions

\* the resolved size of node n on an axis
SizeOf(n, axis) ==
  await(Heap, IF axis = "width" THEN nodes[n].Width ELSE nodes[n].Height, MaxStack)

\* the two margins, or paddings, of a quad on an axis
Both(quad, axis) ==
  IF axis = "width" THEN quad.left + quad.right ELSE quad.top + quad.bottom

\* the bounding extent of node n on an axis: its size plus both margins
BoundingExtent(n, axis) == SizeOf(n, axis).v + Both(nodes[n].Margin, axis)

\* the draw extent a node is sized against: its parent's size minus the
\* parent's padding, or the page's size minus the page's margins; known is
\* FALSE when there is no parent and no page, or the parent's size fails
ParentDrawExtent(n, axis) ==
  IF nodes[n].Parent # Nil
  THEN LET size == SizeOf(nodes[n].Parent, axis)
       IN  [known |-> size.kind = "ok",
            v |-> size.v - Both(nodes[nodes[n].Parent].Padding, axis)]
  ELSE IF nodes[n].Page # Nil
  THEN LET page == pages[nodes[n].Page]
       IN  [known |-> TRUE,
            v |-> (IF axis = "width" THEN page.Width ELSE page.Height)
                  - Both(page.Margin, axis)]
  ELSE [known |-> FALSE, v |-> 0]

\* the nodes laid out beside n: its parent's children, or the nodes of its page
SiblingsOf(n) ==
  IF nodes[n].Parent # Nil THEN nodes[nodes[n].Parent].Children
  ELSE IF nodes[n].Page # Nil THEN pages[nodes[n].Page].Children
  ELSE << >>

\* the flow direction n is laid out in: its parent's, or vertical on a page
FlowAround(n) ==
  IF nodes[n].Parent # Nil THEN nodes[nodes[n].Parent].ChildFlowDirection
  ELSE FlowVertical

AxisOf(flow) == IF flow = FlowHorizontal THEN "width" ELSE "height"

\* the set of the elements of a sequence
Range(q) == {q[i] : i \in 1..Len(q)}

RECURSIVE SumExtents(_, _)
SumExtents(S, axis) ==
  IF S = {} THEN 0
  ELSE LET n == CHOOSE k \in S : TRUE
       IN  BoundingExtent(n, axis) + SumExtents(S \ {n}, axis)

MaxExtent(S, axis) ==
  CHOOSE m \in {BoundingExtent(n, axis) : n \in S} :
    \A n \in S : BoundingExtent(n, axis) <= m

AllResolve(S, axis) == \A n \in S : SizeOf(n, axis).kind = "ok"

\* C1: Percentage(axis, pct) resolves to the draw extent of the parent (its
\* resolved size minus its padding on the axis), or of the page the node is
\* attached to when it has no parent (the page's size minus its margins),
\* times pct / 100.
C1_Percentage ==
  Awaited({"widthPercentage", "heightPercentage"}) =>
    LET extent == ParentDrawExtent(res.node, res.axis)
    IN  (extent.known /\ extent.v # 0) =>
          res.out = Ok((extent.v * ResFuture.params) \div 100)

\* a Percentage was awaited on a child of a node with padding, and gave a size
C1_Witness ==
  /\ Awaited({"widthPercentage", "heightPercentage"})
  /\ nodes[res.node].Parent # Nil
  /\ Both(nodes[nodes[res.node].Parent].Padding, res.axis) > 0
  /\ res.out.kind = "ok"
  /\ res.out.v > 0

\* C2: Fill(axis) in a flow parallel to the axis resolves to the parent's draw
\* extent minus the bounding extents of all other siblings minus the node's
\* own two margins on the axis; so when the node is the only Fill child and
\* the others are literal, the children's bounding extents add up to the
\* parent's draw extent.
C2_FillParallel ==
  (/\ Awaited({"widthFill", "heightFill"})
   /\ AxisOf(FlowAround(res.node)) = res.axis) =>
    LET n == res.node
        extent == ParentDrawExtent(n, res.axis)
        others == Range(SiblingsOf(n)) \ {n}
    IN  (extent.known /\ extent.v # 0 /\ AllResolve(others, res.axis)) =>
          /\ res.out = Ok(extent.v - SumExtents(others, res.axis)
                                   - Both(nodes[n].Margin, res.axis))
          /\ (\A k \in others : (IF res.axis = "width" THEN nodes[k].Width
                                 ELSE nodes[k].Height).state = futureComplete)
               => SumExtents(others \cup {n}, res.axis) = extent.v

\* a Fill was awaited beside a literal sibling, in a parent that flows along
\* the axis, and gave a size
C2_Witness ==
  /\ Awaited({"widthFill", "heightFill"})
  /\ nodes[res.node].Parent # Nil
  /\ AxisOf(FlowAround(res.node)) = res.axis
  /\ Len(SiblingsOf(res.node)) = 2
  /\ \A k \in Range(SiblingsOf(res.node)) \ {res.node} :
       (IF res.axis = "width" THEN nodes[k].Width ELSE nodes[k].Height).state
         = futureComplete
  /\ res.out.kind = "ok"
  /\ res.out.v > 0

\* Percentage(axis, 100) on the node res awaited
Percentage100 ==
  await(Heap,
        [(IF res.axis = "width" THEN WidthPercentage(100) ELSE HeightPercentage(100))
           EXCEPT !.node = res.node],
        MaxStack)

\* the flow around the node res awaited is perpendicular to the axis
Perpendicular == AxisOf(FlowAround(res.node)) # res.axis

\* C3: in a flow perpendicular to the axis (a top-level node's width
\* included), Fill(axis) returns what Percentage(axis, 100) returns, whatever
\* the siblings and the node's own margins.
C3_FillPerpendicular ==
  (Awaited({"widthFill", "heightFill"}) /\ Perpendicular) => res.out = Percentage100

\* a Fill with margins was awaited across the flow, beside a sibling, and gave
\* a size
C3_Witness ==
  /\ Awaited({"widthFill", "heightFill"})
  /\ Perpendicular
  /\ nodes[res.node].Parent # Nil
  /\ Len(SiblingsOf(res.node)) >= 2
  /\ Both(nodes[res.node].Margin, res.axis) > 0
  /\ res.out.kind = "ok"
  /\ res.out.v > 0

\* the node res awaited wraps a single content leaf
WrapsLeaf ==
  /\ Len(nodes[res.node].Children) = 1
  /\ nodes[nodes[res.node].Children[1]].VisualNode.type # "nil"

\* C4: IntrinsicAsChildren(axis) on a container resolves to the sum of its
\* children's bounding extents plus its own two paddings when the axis is
\* parallel to its flow direction, and to the largest of them plus the same
\* padding when it is perpendicular.
C4_AsChildren ==
  (Awaited({"widthAsChildren", "heightAsChildren"}) /\ ~WrapsLeaf) =>
    LET n == res.node
        kids == Range(nodes[n].Children)
        pad == Both(nodes[n].Padding, res.axis)
    IN  AllResolve(kids, res.axis) =>
          IF AxisOf(nodes[n].ChildFlowDirection) = res.axis
          THEN res.out = Ok(SumExtents(kids, res.axis) + pad)
          ELSE kids # {} => res.out = Ok(MaxExtent(kids, res.axis) + pad)

\* an AsChildren was awaited across the flow of a container whose two
\* children differ in extent
C4_Witness ==
  /\ Awaited({"widthAsChildren", "heightAsChildren"})
  /\ ~WrapsLeaf
  /\ AxisOf(nodes[res.node].ChildFlowDirection) # res.axis
  /\ Len(nodes[res.node].Children) = 2
  /\ BoundingExtent(nodes[res.node].Children[1], res.axis)
       # BoundingExtent(nodes[res.node].Children[2], res.axis)
  /\ res.out.kind = "ok"
  /\ res.out.v > Both(nodes[res.node].Padding, res.axis)

OrphanOf(axis) == IF axis = "width" THEN OrphanWidth ELSE OrphanHeight

\* C5: Percentage and Fill fail with OrphanNode, returning no size, on a node
\* with neither a parent nor a page, and on a node whose parent's (or page's)
\* draw extent on the axis is exactly zero; Fill does so in either flow
\* direction.
C5_Orphan ==
  Awaited({"widthPercentage", "heightPercentage", "widthFill", "heightFill"}) =>
    LET n == res.node
        extent == ParentDrawExtent(n, res.axis)
    IN  ((nodes[n].Parent = Nil /\ nodes[n].Page = Nil)
         \/ (extent.known /\ extent.v = 0))
          => res.out = Err(OrphanOf(res.axis))

\* a Fill was awaited along the flow of a parent whose draw extent is zero
C5_Witness ==
  /\ Awaited({"widthFill", "heightFill"})
  /\ nodes[res.node].Parent # Nil
  /\ ~Perpendicular
  /\ ParentDrawExtent(res.node, res.axis).known
  /\ ParentDrawExtent(res.node, res.axis).v = 0
  /\ res.out.kind = "err"

\* C6: IntrinsicAsChildren(axis) on a node that wraps a single content leaf
\* resolves, for a Text, to the renderer's inherent text extent on the axis
\* plus the node's own padding (the wrapper's Fill is not evaluated), and
\* fails with UnresolvableLeaf for an Image.
C6_Leaf ==
  (Awaited({"widthAsChildren", "heightAsChildren"}) /\ WrapsLeaf) =>
    LET leaf == nodes[nodes[res.node].Children[1]]
        pad == Both(nodes[res.node].Padding, res.axis)
        inherent == GetInherentTextRect(leaf.VisualNode)
    IN  /\ (leaf.VisualNode.type = "TextNode" /\ leaf.rendererContext) =>
              res.out = Ok((IF res.axis = "width" THEN inherent.width
                            ELSE inherent.height) + pad)
        /\ leaf.VisualNode.type = "ImageNode" =>
              res.out = Err(IF res.axis = "width" THEN UnresolvableLeafWidth
                            ELSE UnresolvableLeafHeight)

\* an AsChildren was awaited on the layout node of a Text and gave a size
C6_Witness ==
  /\ Awaited({"widthAsChildren", "heightAsChildren"})
  /\ WrapsLeaf
  /\ nodes[nodes[res.node].Children[1]].VisualNode.type = "TextNode"
  /\ Both(nodes[res.node].Padding, res.axis) > 0
  /\ res.out.kind = "ok"

(* ======================== the paginator, checked ======================= *)
(* last holds the locals of the latest iteration of the loop over d.nodes.  *)

\* the page the latest iteration placed its node on
LastPage == pages[last.page]

\* C7: a top-level node whose bounding height exceeds the page's inner height
\* (page height minus the page's top and bottom margins) makes
\* CreateDocumentTree fail with NodeTooTallForPage.
C7_TooTallForInnerHeight ==
  (/\ last.node # Nil
   /\ last.stage \notin {"positions", "bounding"}
   /\ last.nodeHeight > LastPage.Height - (LastPage.Margin.top + LastPage.Margin.bottom))
    => (pc = "err" /\ err = NodeTooTallForPage)

\* C8: after a node is placed and the cursor advanced, a page is added for
\* the next node exactly when cursor.y plus the next node's height exceeds the
\* bottom edge of the page's usable area, page height minus bottom margin.
C8_BreakAtUsableBottom ==
  (last.stage = "ok" /\ last.hasNext) =>
    (last.broke <=>
       last.advancedY + last.nextHeight > LastPage.Height - LastPage.Margin.bottom)

\* C9: the cursor starts at (page.margin.left, page.margin.top) and is back
\* there on every added page; a top-level node is put at the cursor plus its
\* own left and top margins; after it the cursor's y has advanced by the
\* node's bounding height and its x has not changed, so every top-level node
\* has X = page.margin.left + node.margin.left.
C9_TopLevelPlacement ==
  /\ (pc = "loop" /\ idx = 1) =>
       cursor = [x |-> pages[1].Margin.left, y |-> pages[1].Margin.top]
  /\ pc # "build" => cursor.x = pages[currentPage].Margin.left
  /\ last.node # Nil =>
       /\ nodes[last.node].X = last.at.x + nodes[last.node].Margin.left
       /\ nodes[last.node].Y = last.at.y + nodes[last.node].Margin.top
  /\ last.stage = "ok" =>
       /\ last.advancedY = last.at.y + BoundingExtent(last.node, "height")
       /\ cursor = IF last.broke
                   THEN [x |-> pages[currentPage].Margin.left,
                         y |-> pages[currentPage].Margin.top]
                   ELSE [x |-> last.at.x, y |-> last.advancedY]
  /\ \A n \in 1..Len(nodes) :
       (nodes[n].Parent = Nil /\ nodes[n].Page # Nil) =>
         nodes[n].X = pages[nodes[n].Page].Margin.left + nodes[n].Margin.left

\* a second top-level node, with margins, was placed below the first on the
\* same page
C9_Witness ==
  /\ last.stage = "ok"
  /\ Len(dnodes) >= 2
  /\ last.node = dnodes[2]
  /\ last.page = 1
  /\ nodes[last.node].Margin.left > 0
  /\ nodes[last.node].Margin.top > 0
  /\ nodes[last.node].Y > nodes[dnodes[1]].Y

SameTemplate(p, q) == p.Width = q.Width /\ p.Height = q.Height /\ p.Margin = q.Margin

IsPrefix(a, b) == Len(a) <= Len(b) /\ \A i \in 1..Len(a) : a[i] = b[i]

\* C10: the document starts with one page; pages are never removed or
\* reordered; one page is appended per page break and none otherwise; every
\* page has the first page's width, height and margin; and there are never
\* more pages than max(1, number of top-level nodes).
C10_Pages ==
  /\ Len(pages) = 1
  /\ [](/\ Len(pages) >= 1
        /\ Len(pages) <= (IF Len(TopLevel) > 1 THEN Len(TopLevel) ELSE 1)
        /\ \A i \in 1..Len(pages) : SameTemplate(pages[i], pages[1]))
  /\ [][/\ Len(pages') \in {Len(pages), Len(pages) + 1}
        /\ \A i \in 1..Len(pages) :
             /\ SameTemplate(pages'[i], pages[i])
             /\ IsPrefix(pages[i].Children, pages'[i].Children)
        /\ Len(pages') = Len(pages) + 1 <=> (last' # last /\ last'.broke)]_vars

\* two page breaks have grown the document to three pages
C10_Witness == Len(pages) = 3 /\ last.broke

(* ======================= the resolver, checked ========================= *)

AlignedProps(width, height, margin, padding, flow, vertical, horizontal) ==
  [Width |-> width, Height |-> height, Margin |-> margin, Padding |-> padding,
   ChildAlignment |-> [Vertical |-> vertical, Horizontal |-> horizontal],
   ChildFlowDirection |-> flow]

\* the LayoutNodeProps of the position checks: a padded literal container in
\* every flow direction and alignment, and two literal boxes that differ in
\* both extents, one of them with margins
AlignProps ==
  { AlignedProps(StaticSize(Sz(100)), StaticSize(Sz(80)), Quad(0, 0, 0, 0),
                 Quad(4, 3, 2, 1), f, v, hz)
      : f \in {FlowVertical, FlowHorizontal}, v \in {Start, Center, End},
        hz \in {Start, Center, End} }
  \cup
  { Props(StaticSize(Sz(20)), StaticSize(Sz(10)), Quad(1, 2, 3, 4), Quad(0, 0, 0, 0),
          FlowVertical),
    Props(StaticSize(Sz(40)), StaticSize(Sz(30)), Quad(0, 0, 0, 0), Quad(0, 0, 0, 0),
          FlowVertical) }

NextAlign == Build(AlignProps) \/ CreateDocumentTree \/ ResolveNext

\* trees of aligned containers, built and laid out
SpecAlign == Init /\ [][NextAlign]_vars

\* the top-level node above n
RECURSIVE RootOf(_)
RootOf(n) == IF nodes[n].Parent = Nil THEN n ELSE RootOf(nodes[n].Parent)

\* recursiveSetPositions has returned nil for the tree n is in
LaidOut(n) ==
  /\ pc \in {"loop", "done", "err"}
  /\ \E k \in 1..Len(dnodes) : dnodes[k] = RootOf(n) /\ k < idx

\* the containers whose children have been positioned
Containers == {n \in 1..Len(nodes) : LaidOut(n) /\ Len(nodes[n].Children) > 0}

OtherAxis(axis) == IF axis = "width" THEN "height" ELSE "width"

\* node k's X or Y
Coord(k, axis) == IF axis = "width" THEN nodes[k].X ELSE nodes[k].Y

\* the corner of n's draw rect: its position plus its left or top padding
DrawOrigin(n, axis) ==
  Coord(n, axis) + (IF axis = "width" THEN nodes[n].Padding.left
                    ELSE nodes[n].Padding.top)

\* n's draw extent: its size minus both paddings
DrawExtent(n, axis) == SizeOf(n, axis).v - Both(nodes[n].Padding, axis)

\* node k's left or top margin
Leading(k, axis) ==
  IF axis = "width" THEN nodes[k].Margin.left ELSE nodes[k].Margin.top

\* the alignment that governs an axis in container n
AlignmentOn(n, axis) ==
  IF axis = "width" THEN nodes[n].ChildAlignment.Horizontal
  ELSE nodes[n].ChildAlignment.Vertical

\* C11: across the flow every child is aligned on its own: with Center a
\* child's coordinate plus half its bounding extent is the middle of the
\* container's draw rect, with End its coordinate plus its bounding extent is
\* the far edge of the draw rect, and with Start every child keeps the first
\* child's coordinate, the draw rect's corner plus the first child's margin.
C11_CrossAlignment ==
  \A n \in Containers :
    LET x == OtherAxis(AxisOf(nodes[n].ChildFlowDirection))
        kids == nodes[n].Children
    IN  \A i \in 1..Len(kids) :
          CASE AlignmentOn(n, x) = Center ->
                 2 * Coord(kids[i], x) + BoundingExtent(kids[i], x)
                   = 2 * DrawOrigin(n, x) + DrawExtent(n, x)
            [] AlignmentOn(n, x) = End ->
                 Coord(kids[i], x) + BoundingExtent(kids[i], x)
                   = DrawOrigin(n, x) + DrawExtent(n, x)
            [] OTHER ->
                 Coord(kids[i], x) = DrawOrigin(n, x) + Leading(kids[1], x)

\* a laid-out container centres, across its flow, two children whose bounding
\* extents differ, so that the second is shifted
C11_Witness ==
  \E n \in Containers :
    LET x == OtherAxis(AxisOf(nodes[n].ChildFlowDirection))
        kids == nodes[n].Children
    IN  /\ AlignmentOn(n, x) = Center
        /\ Len(kids) = 2
        /\ BoundingExtent(kids[1], x) # BoundingExtent(kids[2], x)
        /\ Coord(kids[1], x) # Coord(kids[2], x)

\* C12: the first child of a container is put, along the flow, at the corner
\* of the container's draw rect (its position plus its padding) plus an
\* offset: its own leading margin for Start, half of the draw extent less the
\* children's summed bounding extents for Center, all of that for End.
C12_FirstChild ==
  \A n \in Containers :
    LET a == AxisOf(nodes[n].ChildFlowDirection)
        first == nodes[n].Children[1]
        rest == DrawExtent(n, a) - SumExtents(Range(nodes[n].Children), a)
        offset == Coord(first, a) - DrawOrigin(n, a)
    IN  CASE AlignmentOn(n, a) = Center -> 2 * offset = rest
          [] AlignmentOn(n, a) = End -> offset = rest
          [] OTHER -> offset = Leading(first, a)

\* a laid-out container with padding centres two children along its flow, with
\* room to spare
C12_Witness ==
  \E n \in Containers :
    LET a == AxisOf(nodes[n].ChildFlowDirection)
    IN  /\ AlignmentOn(n, a) = Center
        /\ Len(nodes[n].Children) = 2
        /\ Both(nodes[n].Padding, a) > 0
        /\ Coord(nodes[n].Children[1], a) > DrawOrigin(n, a)

\* C18: along the flow, child i+1 is put at child i's position plus child
\* i's bounding extent plus child i+1's leading margin.
C18_NextSibling ==
  \A n \in Containers :
    LET a == AxisOf(nodes[n].ChildFlowDirection)
        kids == nodes[n].Children
    IN  \A i \in 1..(Len(kids) - 1) :
          Coord(kids[i + 1], a)
            = Coord(kids[i], a) + BoundingExtent(kids[i], a) + Leading(kids[i + 1], a)

\* a laid-out container holds two children, the second with a leading margin
C18_Witness ==
  \E n \in Containers :
    LET a == AxisOf(nodes[n].ChildFlowDirection)
        kids == nodes[n].Children
    IN  /\ Len(kids) = 2
        /\ Leading(kids[2], a) > 0
        /\ Coord(kids[2], a) > Coord(kids[1], a) + BoundingExtent(kids[1], a)

(* ================== single calls, and their failures =================== *)

\* the LayoutNodeProps of the call checks: a literal box, a Percentage box and
\* an AsChildren box
CallProps ==
  { Props(StaticSize(Sz(100)), StaticSize(Sz(60)), Quad(1, 2, 3, 4), Quad(4, 3, 2, 1),
          FlowVertical),
    Props(WidthPercentage(50), HeightPercentage(50), Quad(2, 2, 2, 2), Quad(0, 0, 0, 0),
          FlowVertical),
    Props(WidthAsChildren, HeightAsChildren, Quad(0, 0, 0, 0), Quad(1, 1, 2, 2),
          FlowVertical),
    Props(StaticSize(Sz(100)), HeightAsChildren, Quad(0, 0, 0, 0), Quad(1, 1, 2, 2),
          FlowVertical) }

\* Futures as the exported constructors return them, and the zero Future:
\* no constructor of a LayoutNode has bound them to a node yet
UnboundFutures ==
  {StaticSize(Sz(10)), StaticSize(emptySize), WidthPercentage(50), HeightPercentage(100),
   WidthFill, HeightFill, WidthAsChildren, HeightAsChildren, ZeroFuture}

\* LayoutNode.getDrawRect on node n, on the heap as it stands
GetDrawRect(n) ==
  /\ pc \in {"loop", "done", "err"}
  /\ res = NoRes
  /\ res' = [node |-> n, axis |-> "drawRect", out |-> getDrawRect(Heap, n, MaxStack)]
  /\ UNCHANGED <<nodes, pages, dnodes, cursor, idx, currentPage, pc, err, last>>

\* Future.await on a Future that is in no node
AwaitFuture(f) ==
  /\ res = NoRes
  /\ res' = [node |-> Nil, axis |-> "future", out |-> await(Heap, f, MaxStack),
             future |-> f]
  /\ UNCHANGED <<nodes, pages, dnodes, cursor, idx, currentPage, pc, err, last>>

NextCalls ==
  \/ Build(CallProps)
  \/ CreateDocumentTree
  \/ ResolveNext
  \/ \E n \in 1..Len(nodes) : GetDrawRect(n)
  \/ \E f \in UnboundFutures : AwaitFuture(f)

\* trees of the call boxes, built and laid out, with single calls of
\* getDrawRect and of await on an unbound Future
SpecCalls == Init /\ [][NextCalls]_vars

\* the first error that awaiting n's Width and then its Height meets: "nil"
\* when both give a size, "none" when one of them ends the program instead
FirstSizeError(n) ==
  LET width == SizeOf(n, "width")
      height == SizeOf(n, "height")
  IN  IF width.kind = "err" THEN width.e
      ELSE IF width.kind # "ok" THEN "none"
      ELSE IF height.kind = "err" THEN height.e
      ELSE IF height.kind # "ok" THEN "none"
      ELSE "nil"

\* C13: a failure is handed to the caller at once and as it is; so computing
\* a node's draw rect fails, with that error, when the node's width or height
\* fails to resolve.
C13_DrawRectFails ==
  (res.axis = "drawRect" /\ FirstSizeError(res.node) \notin {"nil", "none"}) =>
    (res.out.kind = "err" /\ res.out.e = FirstSizeError(res.node))

\* C15: resolving a Future never changes it: await on a complete Future
\* returns the stored value, await on an incomplete one returns what its
\* definition returns for its node and params on the tree as it stands, and
\* no node, so no Future's state or value, is different afterwards.
C15_AwaitChangesNothing ==
  [][(res' # res /\ res'.axis \in {"width", "height"}) =>
       LET f == IF res'.axis = "width" THEN nodes[res'.node].Width
                ELSE nodes[res'.node].Height
       IN  /\ nodes' = nodes
           /\ res'.out = IF f.state = futureComplete THEN Ok(f.value)
                         ELSE callDefinition(Heap, f, MaxStack)]_vars

\* an incomplete Future was awaited and gave a size, and is still incomplete
\* with the empty value
C15_Witness ==
  /\ res.axis \in {"width", "height"}
  /\ ResFuture.state = futureIncomplete
  /\ ResFuture.value = emptySize
  /\ res.out.kind = "ok"
  /\ res.out.v > 0

\* C16: await on a Future whose node is nil returns the invariant violation
\* and the empty size, for a complete Future as for an incomplete one; the
\* definition is not called.
C16_UnboundFuture ==
  res.axis = "future" => res.out = Err(invariantViolation)

\* a complete Future holding a size, bound to no node, was awaited and failed
C16_Witness ==
  /\ res.axis = "future"
  /\ res.future.state = futureComplete
  /\ res.future.value > 0
  /\ res.out.kind = "err"

\* C14: when CreateDocumentTree has returned an error, the document has its one
\* page, no page holds a node, and every node's X and Y are as its constructor
\* left them
C14_NoPartialLayout ==
  pc = "err" =>
    /\ Len(pages) = 1
    /\ \A p \in 1..Len(pages) : pages[p].Children = << >>
    /\ \A n \in 1..Len(nodes) :
         /\ nodes[n].Page = Nil
         /\ nodes[n].X = emptySize
         /\ nodes[n].Y = emptySize

(* ------------------- the cursor of recursiveSetPositions --------------- *)

\* the LayoutNodeProps of the cursor checks: padded containers in both flows
\* under three alignments, and two literal boxes, one with margins
WalkProps ==
  { AlignedProps(StaticSize(Sz(100)), StaticSize(Sz(80)), Quad(0, 0, 0, 0),
                 Quad(4, 3, 2, 1), f, a[1], a[2])
      : f \in {FlowVertical, FlowHorizontal},
        a \in {<<Start, Start>>, <<Center, End>>, <<End, Center>>} }
  \cup
  { Props(StaticSize(Sz(20)), StaticSize(Sz(10)), Quad(1, 2, 3, 4), Quad(0, 0, 0, 0),
          FlowVertical),
    Props(StaticSize(Sz(40)), StaticSize(Sz(30)), Quad(0, 0, 0, 0), Quad(0, 0, 0, 0),
          FlowHorizontal) }

\* the cursors recursiveSetPositions is entered with
WalkCursors == {[x |-> Sz(0), y |-> Sz(0)], [x |-> Sz(5), y |-> Sz(7)]}

\* recursiveSetPositions(node, &cursor) on node n with the cursor at c: the
\* nodes are as the call leaves them, res keeps the cursor at entry and what the
\* call returned with the cursor it left
SetPositions(n, c) ==
  /\ pc = "build"
  /\ \E walk \in {recursiveSetPositions(Heap, n, c, MaxStack)} :
       /\ nodes' = walk.h.nodes
       /\ res' = [node |-> n, axis |-> "positions", at |-> c,
                  out |-> [kind |-> walk.kind, e |-> walk.e, v |-> 0],
                  cursor |-> walk.cursor]
  /\ pc' = "walked"
  /\ UNCHANGED <<pages, dnodes, cursor, idx, currentPage, err, last>>

NextWalk ==
  \/ Build(WalkProps)
  \/ \E n \in 1..Len(nodes), c \in WalkCursors : SetPositions(n, c)

\* trees of the cursor boxes, built and walked by one call of the resolver
SpecWalk == Init /\ [][NextWalk]_vars

\* C19: a call of recursiveSetPositions that returns no error leaves the cursor
\* with the x and y it was entered with; on a node without children it leaves
\* the cursor and every node as they were
C19_CursorScoped ==
  [][(pc = "build" /\ pc' = "walked") =>
       /\ res'.out.kind = "ok" => res'.cursor = res'.at
       /\ Len(nodes[res'.node].Children) = 0 =>
            (res'.cursor = res'.at /\ nodes' = nodes)]_vars

\* a walk of a chain of three nodes that moved the inner ones and returned
C19_Witness ==
  /\ pc = "walked"
  /\ res.out.kind = "ok"
  /\ res.cursor = res.at
  /\ \E c \in 1..Len(nodes) :
       /\ nodes[c].Parent # Nil
       /\ nodes[nodes[c].Parent].Parent = res.node
       /\ nodes[c].X > res.at.x
       /\ nodes[c].Y > res.at.y

(* ---------------- what CreateDocumentTree writes on a node ------------- *)

\* a node with its position blanked
WithoutPosition(n) == [n EXCEPT !.X = emptySize, !.Y = emptySize]

\* a node with its position, its page and its renderer context blanked
WithoutPlacement(n) ==
  [WithoutPosition(n) EXCEPT !.Page = Nil, !.rendererContext = FALSE]

\* a step of CreateDocumentTree: its start or one iteration of its loop
LayoutStep == pc' # "build" /\ nodes' # nodes

\* C20 as stated: a step of CreateDocumentTree writes no field of any node but
\* X and Y
C20_OnlyPositionWritten ==
  [][LayoutStep =>
       /\ Len(nodes') = Len(nodes)
       /\ \A n \in 1..Len(nodes) :
            WithoutPosition(nodes'[n]) = WithoutPosition(nodes[n])]_vars

\* C20: a step of CreateDocumentTree leaves every node's Children, Parent, Width
\* and Height rules, margin, padding, flow direction, alignment and content as
\* they were: it writes X, Y and the renderer context, and the Page of nodes of
\* the list it was given
C20_TreeUntouched ==
  [][LayoutStep =>
       /\ Len(nodes') = Len(nodes)
       /\ \A n \in 1..Len(nodes) :
            /\ WithoutPlacement(nodes'[n]) = WithoutPlacement(nodes[n])
            /\ nodes'[n].Page # nodes[n].Page =>
                 (nodes[n].Parent = Nil /\ nodes'[n].Page = currentPage)]_vars

\* a finished layout that placed a child inside a top-level node on a page
C20_Witness ==
  /\ pc = "done"
  /\ \E n \in 1..Len(nodes) :
       /\ nodes[n].Parent # Nil
       /\ nodes[n].X > emptySize
       /\ nodes[n].Y > emptySize
       /\ nodes[n].rendererContext
       /\ nodes[nodes[n].Parent].Page # Nil
       /\ nodes[nodes[n].Parent].Children # << >>

(* --------------------------- cycles of rules --------------------------- *)

\* the largest tree of the cycle checks: a container, a two-node Image and a
\* further child
MaxCycleNodes == 4

\* the LayoutNodeProps of the cycle checks: one box per rule, the AsChildren
\* box in both flows, and a literal box
CycleProps ==
  { Props(WidthAsChildren, HeightAsChildren, Quad(0, 0, 0, 0), Quad(1, 1, 2, 2), f)
      : f \in {FlowVertical, FlowHorizontal} }
  \cup
  { Props(WidthPercentage(50), HeightPercentage(50), Quad(0, 0, 0, 0), Quad(0, 0, 0, 0),
          FlowVertical),
    Props(WidthFill, HeightFill, Quad(0, 0, 0, 0), Quad(0, 0, 0, 0), FlowVertical),
    Props(StaticSize(Sz(100)), StaticSize(Sz(60)), Quad(0, 0, 0, 0), Quad(0, 0, 0, 0),
          FlowVertical) }

\* Div, for trees of up to MaxCycleNodes nodes
BuildDiv(parent, options) ==
  /\ pc = "build"
  /\ Len(nodes) + 1 <= MaxCycleNodes
  /\ nodes' = Div(nodes, parent, options)
  /\ UNCHANGED <<pages, dnodes, cursor, idx, currentPage, pc, err, last, res>>

\* Image, for trees of up to MaxCycleNodes nodes
BuildImage(parent, options) ==
  /\ pc = "build"
  /\ Len(nodes) + 2 <= MaxCycleNodes
  /\ nodes' = Image(nodes, parent, options, ImageNode)
  /\ UNCHANGED <<pages, dnodes, cursor, idx, currentPage, pc, err, last, res>>

\* Future.await on the Width or Height of a node of the tree as built
AwaitSize(n, axis) ==
  /\ pc = "build"
  /\ res' = [node |-> n, axis |-> axis,
             out |-> await(Heap, IF axis = "width" THEN nodes[n].Width
                                 ELSE nodes[n].Height, MaxStack)]
  /\ pc' = "awaited"
  /\ UNCHANGED <<nodes, pages, dnodes, cursor, idx, currentPage, err, last>>

NextCycle ==
  \/ \E parent \in Returned \cup {Nil}, options \in CycleProps : BuildDiv(parent, options)
  \/ \E parent \in Returned \cup {Nil}, options \in CycleProps : BuildImage(parent, options)
  \/ \E n \in 1..Len(nodes), axis \in {"width", "height"} : AwaitSize(n, axis)

\* trees of the cycle boxes, built, with one size awaited
SpecCycle == Init /\ [][NextCycle]_vars

\* the rule of node n on an axis
RuleOn(n, axis) == IF axis = "width" THEN nodes[n].Width ELSE nodes[n].Height

\* container c is sized AsChildren on the axis and its child k, a node that
\* holds no content, is sized Percentage or Fill on it
InCycle(c, k, axis) ==
  /\ nodes[k].Parent = c
  /\ nodes[k].VisualNode.type = "nil"
  /\ RuleOn(c, axis).definition = axis \o "AsChildren"
  /\ RuleOn(k, axis).definition \in {axis \o "Percentage", axis \o "Fill"}

\* the children of k's parent listed before k
Before(k) ==
  LET kids == nodes[nodes[k].Parent].Children
  IN  {kids[i] : i \in {j \in 1..Len(kids) : \E m \in (j + 1)..Len(kids) : kids[m] = k}}

\* an awaited size that is one of the two of a cycle
CycleAwaited(c, k) ==
  /\ pc = "awaited"
  /\ InCycle(c, k, res.axis)
  /\ res.node \in {c, k}

\* C17 as stated: awaiting the size of the container or of the child of a
\* cycle exhausts the stack, and returns neither a value nor an error
C17_CycleNeverReturns ==
  \A c, k \in 1..Len(nodes) : CycleAwaited(c, k) => res.out.kind = "overflow"

\* C17: awaiting the size of the container or of the child of a cycle exhausts
\* the stack and returns neither a value nor an error, when no child the
\* container lists before that child fails to resolve on that axis
C17_CycleReached ==
  \A c, k \in 1..Len(nodes) :
    (/\ CycleAwaited(c, k)
     /\ \A e \in Before(k) : await(Heap, RuleOn(e, res.axis), MaxStack).kind # "err")
      => res.out.kind = "overflow"

\* a cycle awaited from the child, behind a sibling that resolves
C17_Witness ==
  \E c, k \in 1..Len(nodes) :
    /\ CycleAwaited(c, k)
    /\ res.node = k
    /\ Before(k) # {}
    /\ \A e \in Before(k) : await(Heap, RuleOn(e, res.axis), MaxStack).kind = "ok"
    /\ res.out.kind = "overflow"

(* ----------------------- the order of the positions -------------------- *)

RECURSIVE PreOrder(_)

\* the pre-order of the subtrees of kids[i], kids[i+1], ...
RECURSIVE PreOrderFrom(_, _)
PreOrderFrom(kids, i) ==
  IF i > Len(kids) THEN << >> ELSE PreOrder(kids[i]) \o PreOrderFrom(kids, i + 1)

\* node n, then its children's subtrees in the order of n.Children
PreOrder(n) == <<n>> \o PreOrderFrom(nodes[n].Children, 1)

\* C21: an iteration over a top-level node whose positions were resolved
\* assigned X and Y once to each node of its subtree, a node before its
\* descendants and before its later siblings: the assignments follow the
\* pre-order of the subtree
C21_PreOrderOnce ==
  last.stage \notin {"none", "positions"} => last.writes = PreOrder(last.node)

\* a finished layout whose latest top-level node has two children, or a child
\* and a grandchild
C21_Witness ==
  /\ pc = "done"
  /\ Len(last.writes) = 3
  /\ last.writes = PreOrder(last.node)

(* ------------------ the height of the next top-level node -------------- *)

\* the index of the latest iteration's node in the list
LastIndex == CHOOSE k \in 1..Len(dnodes) : dnodes[k] = last.node

\* the latest iteration placed its node, which is not the last, and went on to
\* the height of the next node, whose rule is Percentage or Fill
RelativeHeightNext ==
  /\ last.node # Nil
  /\ last.stage \in {"ok", "nextHeight"}
  /\ LastIndex < Len(dnodes)
  /\ nodes[dnodes[LastIndex + 1]].Height.definition \in {"heightPercentage", "heightFill"}

\* C22: the Percentage or Fill height of a second or later top-level node
\* resolves against the draw rect of the page, as that of a first node does:
\* to a height, not to the error of a node without parent and page
C22_RelativeHeightOfLaterNode ==
  RelativeHeightNext =>
    /\ last.stage = "ok"
    /\ last.nextHeight > emptySize

(* -------------------- top-level nodes inside their page ---------------- *)

\* C23: once CreateDocumentTree has succeeded, the bounding rect of every
\* top-level node starts at or below the top margin of its page and ends at or
\* above the page's height less its bottom margin
C23_InsideUsableArea ==
  pc = "done" =>
    \A k \in 1..Len(dnodes) :
      LET n == nodes[dnodes[k]]
          page == pages[n.Page]
      IN  /\ n.Y - n.Margin.top >= page.Margin.top
          /\ (n.Y - n.Margin.top) + BoundingExtent(dnodes[k], "height")
               <= page.Height - page.Margin.bottom

(* ------------------- children inside the draw rect --------------------- *)

\* where node k's bounding rect starts on an axis: its position less its left
\* or top margin
BoundingStart(k, axis) == Coord(k, axis) - Leading(k, axis)

\* the children of n fit in its draw rect along the flow
ChildrenFit(n) ==
  LET a == AxisOf(nodes[n].ChildFlowDirection)
  IN  SumExtents(Range(nodes[n].Children), a) <= DrawExtent(n, a)

\* C24: in a laid-out container whose children fit along the flow, every
\* child's bounding rect lies inside the container's draw rect along the flow,
\* and each child's bounding rect starts where that of the child before ends
C24_InsideAndContiguous ==
  \A n \in Containers :
    ChildrenFit(n) =>
      LET a == AxisOf(nodes[n].ChildFlowDirection)
          kids == nodes[n].Children
      IN  /\ \A i \in 1..Len(kids) :
               /\ BoundingStart(kids[i], a) >= DrawOrigin(n, a)
               /\ BoundingStart(kids[i], a) + BoundingExtent(kids[i], a)
                    <= DrawOrigin(n, a) + DrawExtent(n, a)
          /\ \A i \in 1..(Len(kids) - 1) :
               BoundingStart(kids[i + 1], a)
                 = BoundingStart(kids[i], a) + BoundingExtent(kids[i], a)

(* -------------------- what a node's X and Y denote --------------------- *)

\* node k's X or Y is its left or top margin past the start of the bounding
\* rect that the alignment of container n gives it on an axis: at the corner of
\* the draw rect for Start, against its far edge for End, in its middle for
\* Center; extent is what is aligned, the child's own bounding extent across
\* the flow and that of all the children along it
RenderCorner(n, k, axis, extent) ==
  LET start == Coord(k, axis) - Leading(k, axis)
  IN  CASE AlignmentOn(n, axis) = Center ->
             2 * start + extent = 2 * DrawOrigin(n, axis) + DrawExtent(n, axis)
        [] AlignmentOn(n, axis) = End ->
             start + extent = DrawOrigin(n, axis) + DrawExtent(n, axis)
        [] OTHER -> start = DrawOrigin(n, axis)

\* C25: the X and Y of the first child of a laid-out container are the corner
\* of its render rect, its left and top margins inside the bounding rect that
\* the container's alignment places, under Start, Center and End alike
C25_RenderCorner ==
  \A n \in Containers :
    LET a == AxisOf(nodes[n].ChildFlowDirection)
        first == nodes[n].Children[1]
    IN  /\ RenderCorner(n, first, a, SumExtents(Range(nodes[n].Children), a))
        /\ RenderCorner(n, first, OtherAxis(a), BoundingExtent(first, OtherAxis(a)))

(* ----------------------- the pages and the input ----------------------- *)

\* the node lists of pages p, p+1, ... one after the other
RECURSIVE PagesFrom(_)
PagesFrom(p) ==
  IF p > Len(pages) THEN << >> ELSE pages[p].Children \o PagesFrom(p + 1)

\* C26: once CreateDocumentTree has succeeded, the pages' node lists one after
\* the other are the list it was given, every node of a page has that page as
\* its Page, and no page is empty, but for the single page of an empty list
C26_PagesPartitionInput ==
  pc = "done" =>
    /\ PagesFrom(1) = dnodes
    /\ \A p \in 1..Len(pages) :
         /\ \A i \in 1..Len(pages[p].Children) : nodes[pages[p].Children[i]].Page = p
         /\ pages[p].Children = << >> => (p = 1 /\ dnodes = << >>)

\* a finished layout of three top-level nodes over more than one page
C26_Witness ==
  /\ pc = "done"
  /\ Len(dnodes) = 3
  /\ Len(pages) >= 2
  /\ PagesFrom(1) = dnodes

(* ---------------------- termination of the rules ----------------------- *)

\* no container sized AsChildren on an axis has a child sized Percentage or
\* Fill on that axis
NoRelativeUnderIntrinsic ==
  \A c, k \in 1..Len(nodes), axis \in {"width", "height"} :
    ~ (/\ nodes[k].Parent = c
       /\ RuleOn(c, axis).definition = axis \o "AsChildren"
       /\ RuleOn(k, axis).definition \in {axis \o "Percentage", axis \o "Fill"})

\* C27: in a tree where no container sized AsChildren on an axis has a child
\* sized Percentage or Fill on that axis, awaiting a size returns a value or an
\* error: the stack is not exhausted
C27_ResolutionTerminates ==
  (res.axis \in {"width", "height"} /\ NoRelativeUnderIntrinsic) =>
    res.out.kind \in {"ok", "err"}

(* ---------------------- dimensions left unspecified -------------------- *)

\* the LayoutNodeProps that leave a dimension out: the height, the width, both
UnsetProps ==
  { Props(StaticSize(Sz(100)), ZeroFuture, Quad(0, 0, 0, 0), Quad(0, 0, 0, 0),
          FlowVertical),
    Props(ZeroFuture, StaticSize(Sz(60)), Quad(0, 0, 0, 0), Quad(0, 0, 0, 0),
          FlowVertical),
    Props(ZeroFuture, ZeroFuture, Quad(1, 1, 1, 1), Quad(0, 0, 0, 0), FlowHorizontal) }

NextUnset ==
  \/ Build(UnsetProps)
  \/ \E n \in 1..Len(nodes), axis \in {"width", "height"} : AwaitSize(n, axis)

\* trees of boxes with a dimension left out, built, with one size awaited
SpecUnset == Init /\ [][NextUnset]_vars

\* C28: awaiting the Width or Height of a node that Div, Text or Image made
\* returns a Size or an error, also for a dimension the props left out
C28_NoAbsentRule ==
  pc = "awaited" => res.out.kind \in {"ok", "err"}

(* ------------------------------- Clone --------------------------------- *)

\* the largest node list of the clone checks: a parent, a child and their
\* clones
MaxCloneNodes == 4

RECURSIVE Clone(_, _)

\* "for _, child := range n.Children { root.addChild(child.Clone()) }", from
\* child number i on, root being node id of the list ns
RECURSIVE cloneChildren(_, _, _, _)
cloneChildren(ns, id, kids, i) ==
  IF i > Len(kids) THEN ns
  ELSE LET cloned == Clone(ns, kids[i])
       IN  cloneChildren([cloned.ns EXCEPT ![id].Children = Append(@, cloned.id)],
                         id, kids, i + 1)

\* LayoutNode.Clone: "root := *n" copies every field of n, the Parent and the
\* two Futures with the node they are bound to included, and the children are
\* replaced by their clones; the node list after the call and the clone in it
Clone(ns, n) ==
  LET id == Len(ns) + 1
      root == [ns[n] EXCEPT !.Children = << >>]
  IN  [ns |-> cloneChildren(Append(ns, root), id, ns[n].Children, 1), id |-> id]

\* the LayoutNodeProps of the clone checks
CloneProps ==
  { Props(StaticSize(Sz(100)), StaticSize(Sz(60)), Quad(0, 0, 0, 0), Quad(1, 1, 1, 1),
          FlowVertical),
    Props(WidthPercentage(50), HeightFill, Quad(1, 1, 1, 1), Quad(0, 0, 0, 0),
          FlowHorizontal) }

\* n.Clone() on a node a constructor returned; res keeps the clone
CallClone(n) ==
  /\ pc = "build"
  /\ Len(nodes) + Cardinality(subtree(nodes, n)) <= MaxCloneNodes
  /\ \E cloned \in {Clone(nodes, n)} :
       /\ nodes' = cloned.ns
       /\ res' = [node |-> n, axis |-> "clone", out |-> Ok(0), clone |-> cloned.id]
  /\ pc' = "cloned"
  /\ UNCHANGED <<pages, dnodes, cursor, idx, currentPage, err, last>>

NextClone ==
  \/ Build(CloneProps)
  \/ \E n \in Returned : CallClone(n)

\* trees built and cloned once
SpecClone == Init /\ [][NextClone]_vars

\* C29: in the tree a Clone call returned, the Width and Height of every node
\* are bound to that node, and every child's Parent is the node that lists it
C29_CloneIndependent ==
  pc = "cloned" =>
    \A m \in subtree(nodes, res.clone) :
      /\ nodes[m].Width.node = m
      /\ nodes[m].Height.node = m
      /\ \A i \in 1..Len(nodes[m].Children) : nodes[nodes[m].Children[i]].Parent = m

(* ------------------------- the tree as built --------------------------- *)

\* node n holds a content payload: it is the wrapper Text or Image made
HoldsContent(n) == nodes[n].VisualNode.type # "nil"

\* C30: whatever Div, Text and Image calls were made, the Width and Height of
\* every node are bound to that node, every child's Parent is the node that
\* lists it, every node with a Parent is listed by it, and a node that holds a
\* content payload has no children and is the only child of its layout node
C30_WellFormed ==
  \A n \in 1..Len(nodes) :
    /\ nodes[n].Width.node = n
    /\ nodes[n].Height.node = n
    /\ \A i \in 1..Len(nodes[n].Children) : nodes[nodes[n].Children[i]].Parent = n
    /\ nodes[n].Parent # Nil => n \in Range(nodes[nodes[n].Parent].Children)
    /\ HoldsContent(n) =>
         /\ nodes[n].Children = << >>
         /\ nodes[n].Parent # Nil
         /\ nodes[nodes[n].Parent].Children = <<n>>

====
